---- MODULE Spec2Model ----
(***************************************************************************)
(* Schwarzschild photon-ray visualizer: the geodesic integrator            *)
(* (computeTrajectory), the seeded generator (mulberry32) and the ensemble *)
(* builder (buildRays) of services/physics.ts.                             *)
(*                                                                         *)
(* Numbers.  The program computes in IEEE doubles.  The model computes in  *)
(* binary fixed point with 20 fractional bits: the integer x stands for    *)
(* the real x / 2^20.  The radicand F of the radial equation is kept with  *)
(* 27 fractional bits.  Every operator below is written so that all its    *)
(* intermediate values stay inside TLC's 32-bit integers.                  *)
(***************************************************************************)
EXTENDS Integers, Sequences, FiniteSets, TLC

\* ------------------------------------------------------------------------
\* Fixed-point arithmetic
\* ------------------------------------------------------------------------

\* 1.0 with 20 fractional bits, and 1.0 with 27 fractional bits (for F).
ONE == 1024 * 1024
FONE == 128 * ONE

\* The fixed-point value of the decimal n / d, d <= 1000 (rounded to nearest).
Dec(n, d) == (n \div d) * ONE + (2 * (n % d) * ONE + d) \div (2 * d)

Abs(x) == IF x < 0 THEN -x ELSE x

\* floor(a * b / 2^20) for a, b >= 0, by 10-bit limbs.
MulNat(a, b) ==
    LET ah == a \div 1024
        al == a % 1024
        bh == b \div 1024
        bl == b % 1024
    IN  ah * bh + ((ah * bl + al * bh + ((al * bl) \div 1024)) \div 1024)

\* a * b of two fixed-point numbers (truncated toward zero).
MulS(a, b) ==
    IF (a < 0) = (b < 0) THEN MulNat(Abs(a), Abs(b)) ELSE -MulNat(Abs(a), Abs(b))

RECURSIVE LongDiv(_, _, _, _)
LongDiv(q, rem, d, n) ==
    IF n = 0 THEN q
    ELSE LongDiv(4 * q + ((4 * rem) \div d), (4 * rem) % d, d, n - 1)

\* a / b of two fixed-point numbers, a >= 0, b > 0: floor(a * 2^20 / b),
\* by long division, two bits at a time.
DivS(a, b) == LongDiv(a \div b, a % b, b, 10)

\* q * q of a fixed-point q with 0 <= q < 4, with 27 fractional bits.
SqQ(q) ==
    LET h == q \div 8192
        l == q % 8192
    IN  h * h * 8192 + 2 * h * l + ((l * l) \div 8192)

RECURSIVE Newton(_, _)
Newton(n, x) ==
    LET y == (x + n \div x) \div 2
    IN  IF y >= x THEN x ELSE Newton(n, y)

\* floor(sqrt(n)) of a natural number n < 2^31.
ISqrt(n) == IF n = 0 THEN 0 ELSE Newton(n, 46341)

\* Math.sqrt(x) of an x >= 0 that has 27 fractional bits; the result has 20.
SqrtF(x) ==
    IF x < 262144 THEN ISqrt(x * 8192)
    ELSE IF x < 4194304 THEN ISqrt(x * 512) * 4
    ELSE IF x < 67108864 THEN ISqrt(x * 32) * 16
    ELSE IF x < 1073741824 THEN ISqrt(x * 2) * 64
    ELSE ISqrt(x \div 2) * 128

Max(x, y) == IF x > y THEN x ELSE y

\* Math.min
Min(x, y) == IF x < y THEN x ELSE y

\* The largest finite number of the model, and isFinite.
Infinity == 2047 * ONE + (ONE - 1)
IsFinite(x) == -Infinity < x /\ x < Infinity

\* Huge stands for the finite doubles far above the range of the model, whose
\* square overflows to Infinity (1e200); NaN for the value that is no number.
Huge == Infinity - 1
NaN == -Infinity - 1

\* x + y and x * d (d a positive number of the model) where x or y may be Huge
\* or Infinity.
AddX(x, y) ==
    IF x = Infinity \/ y = Infinity THEN Infinity
    ELSE IF x = Huge \/ y = Huge THEN Huge
    ELSE x + y

MulX(x, d) ==
    IF x = Infinity THEN Infinity
    ELSE IF x = Huge THEN Huge
    ELSE MulS(x, d)

\* ------------------------------------------------------------------------
\* Unsigned 32-bit integers, held as <<high 16 bits, low 16 bits>>
\* ------------------------------------------------------------------------

W16 == 65536

AddU(x, y) ==
    LET lo == x[2] + y[2]
        hi == x[1] + y[1] + lo \div W16
    IN  <<hi % W16, lo % W16>>

RECURSIVE Xor16(_, _, _)
Xor16(x, y, n) ==
    IF n = 0 THEN 0
    ELSE ((x + y) % 2) + 2 * Xor16(x \div 2, y \div 2, n - 1)

\* operator ^
XorU(x, y) == <<Xor16(x[1], y[1], 16), Xor16(x[2], y[2], 16)>>

RECURSIVE Or16(_, _, _)
Or16(x, y, n) ==
    IF n = 0 THEN 0
    ELSE (IF x % 2 = 1 \/ y % 2 = 1 THEN 1 ELSE 0) + 2 * Or16(x \div 2, y \div 2, n - 1)

\* operator |
OrU(x, y) == <<Or16(x[1], y[1], 16), Or16(x[2], y[2], 16)>>

\* 2^n, n in 0..16
RECURSIVE Pow2(_)
Pow2(n) == IF n = 0 THEN 1 ELSE 2 * Pow2(n - 1)

\* operator >>>, for 0 < n < 16
ShrU(x, n) ==
    <<x[1] \div Pow2(n), x[2] \div Pow2(n) + (x[1] % Pow2(n)) * Pow2(16 - n)>>

\* The low 16 bits of x * y, and x * y \div 2^16, for 16-bit x and y.
Mul16Lo(x, y) ==
    LET x1 == x \div 256  x0 == x % 256
        y1 == y \div 256  y0 == y % 256
    IN  (x0 * y0 + ((x1 * y0 + x0 * y1) % 256) * 256) % W16

Mul16Hi(x, y) ==
    LET x1 == x \div 256  x0 == x % 256
        y1 == y \div 256  y0 == y % 256
        mid == x1 * y0 + x0 * y1
        low == x0 * y0 + (mid % 256) * 256
    IN  x1 * y1 + mid \div 256 + low \div W16

\* Math.imul: the low 32 bits of the product
ImulU(x, y) ==
    <<(Mul16Hi(x[2], y[2]) + Mul16Lo(x[1], y[2]) + Mul16Lo(x[2], y[1])) % W16,
      Mul16Lo(x[2], y[2])>>

\* ------------------------------------------------------------------------
\* mulberry32
\* ------------------------------------------------------------------------

\* 0x6d2b79f5
Increment == <<27947, 31221>>

\* Mutant of mulberry32: the generator of the previous call is kept.
mulberry32Shared(seed, old) == old

\* The number a of the closure is a double holding an integer.  It is kept as
\* <<top, hi, lo>> with a = top * 2^32 + hi * 2^16 + lo, hi and lo in 0..65535;
\* top is -1 for a negative seed.
ToNumber(n) == <<(n \div W16) \div W16, (n \div W16) % W16, n % W16>>

\* The exact sum of two such numbers.
AddWide(x, y) ==
    LET lo == x[3] + y[3]
        hi == x[2] + y[2] + lo \div W16
    IN  <<x[1] + y[1] + hi \div W16, hi % W16, lo % W16>>

\* The distance between neighbouring doubles at top * 2^32: 1 below 2^53,
\* 2 from 2^53, 4 from 2^54, ...
RECURSIVE Spacing(_)
Spacing(top) == IF top < 2097152 THEN 1 ELSE 2 * Spacing(top \div 2)

\* The double nearest to x, ties to the even one.
RoundDouble(x) ==
    LET sp == Spacing(x[1])
        rem == x[3] % sp
        down == <<x[1], x[2], x[3] - rem>>
        up == AddWide(down, <<0, 0, sp>>)
    IN  IF 2 * rem < sp THEN down
        ELSE IF 2 * rem > sp THEN up
        ELSE IF (x[3] \div sp) % 2 = 0 THEN down ELSE up

\* mulberry32(seed): the captured variable a of the returned closure.  old is
\* the state the previous generator was left in; a new closure does not see it.
mulberry32(seed, old) == ToNumber(seed)

\* let t = a += 0x6d2b79f5  (a is never truncated: the sum is a double)
Advance(a) == RoundDouble(AddWide(a, <<0, Increment[1], Increment[2]>>))

\* The numerator of what one call of the closure returns, from the advanced a:
\* (t ^ (t >>> 14)) >>> 0.  The bit operations see t modulo 2^32.
Output(a) ==
    LET t0 == <<a[2], a[3]>>
        t1 == ImulU(XorU(t0, ShrU(t0, 15)), OrU(t0, <<0, 1>>))
        t2 == XorU(t1, AddU(t1, ImulU(XorU(t1, ShrU(t1, 7)), OrU(t1, <<0, 61>>))))
    IN  XorU(t2, ShrU(t2, 14))

\* u / 4294967296 as a number of the model: the leading 20 bits of the fraction
Unit(u) == u[1] * 16 + u[2] \div 4096

\* Math.floor((u / 4294967296) * 400)
Floor400(u) == (u[1] * 400 + (u[2] * 400) \div W16) \div W16

\* ------------------------------------------------------------------------
\* Math.cos, Math.sin, Math.acos
\* ------------------------------------------------------------------------

\* Math.PI
PI == 3294199
HalfPI == 1647099

\* x brought into [-PI, PI) by whole turns
Reduce(x) == ((x + PI) % (2 * PI)) - PI

\* The series of cos and sin, for |z| <= PI/2
CosSeries(z) ==
    LET z2 == MulS(z, z)
        t5 == ONE - z2 \div 90
        t4 == ONE - MulS(z2, t5) \div 56
        t3 == ONE - MulS(z2, t4) \div 30
        t2 == ONE - MulS(z2, t3) \div 12
    IN  ONE - MulS(z2, t2) \div 2

SinSeries(z) ==
    LET z2 == MulS(z, z)
        t5 == ONE - z2 \div 110
        t4 == ONE - MulS(z2, t5) \div 72
        t3 == ONE - MulS(z2, t4) \div 42
        t2 == ONE - MulS(z2, t3) \div 20
        t1 == ONE - MulS(z2, t2) \div 6
    IN  MulS(z, t1)

\* Math.cos and Math.sin never leave [-1, 1].
Clamp(v) == IF v > ONE THEN ONE ELSE IF v < -ONE THEN -ONE ELSE v

Cos(x) ==
    LET y == Reduce(x)
    IN  Clamp(IF y > HalfPI THEN -CosSeries(PI - y)
              ELSE IF y < -HalfPI THEN -CosSeries(PI + y)
              ELSE CosSeries(y))

Sin(x) ==
    LET y == Reduce(x)
    IN  Clamp(IF y > HalfPI THEN SinSeries(PI - y)
              ELSE IF y < -HalfPI THEN -SinSeries(PI + y)
              ELSE SinSeries(y))

\* Math.acos(z) for -1 <= z <= 1: the angle in [0, PI] whose cosine is z,
\* found by halving the interval.
RECURSIVE AcosIn(_, _, _)
AcosIn(z, lo, hi) ==
    IF hi - lo <= 1 THEN lo
    ELSE LET mid == (lo + hi) \div 2
         IN  IF Cos(mid) >= z THEN AcosIn(z, mid, hi) ELSE AcosIn(z, lo, mid)

Acos(z) == IF z >= ONE THEN 0 ELSE IF z <= -ONE THEN PI ELSE AcosIn(z, 0, PI)

\* ------------------------------------------------------------------------
\* State
\* ------------------------------------------------------------------------

VARIABLES
    pc,          \* where control is
    b,           \* buildRays arguments
    mass,
    count,
    seed,
    distMode,
    impactMode,
    a,           \* the state of the generator this call created (a of the closure)
    draws,       \* how many times rng() was called in this call (history variable)
    bCrit,       \* buildRays locals
    i,
    theta,
    phi_sphere,
    psi,
    currentB,    \* the b computeTrajectory is called with
    opts,        \* computeTrajectory's opts, defaults applied
    res,         \* computeTrajectory's return value
    result,      \* the RayPath array under construction, then returned
    history,     \* the earlier calls of buildRays, in order: <<arguments, returned array>>
    rng,         \* two generators made by mulberry32 from one seed, and what they returned
    state,       \* App: the values held by useState
    timeRef,     \* App: timeRef.current
    shown,       \* App: the state the last render used (props and effect closures)
    pending,     \* the effects the last commit scheduled, in the order they run
    canvas,      \* SimulationCanvas: rayObjectsRef.current and what the animation effect read
    raf,         \* App: the animation frame requested and not yet delivered or cancelled
    loop,        \* computeTrajectory run one iteration at a time: its locals
    lookup       \* one computation of the index into a ray's points: its inputs and result

trajVars == <<mass, currentB, opts, res>>
argVars == <<b, count, seed, distMode, impactMode>>
rayVars == <<theta, phi_sphere, psi>>
buildVars == <<argVars, a, draws, bCrit, i, rayVars, result, history>>
appVars == <<state, timeRef, shown, pending, canvas, raf>>
stepVars == <<loop, lookup>>
vars == <<pc, trajVars, buildVars, rng, appVars, stepVars>>

\* ------------------------------------------------------------------------
\* computeTrajectory
\* ------------------------------------------------------------------------

\* Mutant of rEscape: the escape radius lies inside the start radius of buildRays.
rEscapeInside == 50 * ONE

\* const rEscape = 150
rEscape == 150 * ONE

\* Mutant of rHorizonLimit: the factor 2.01 written as 20.1.
rHorizonLimitSlip(m) == MulS(Dec(201, 10), m)

\* Horizon is at 2M; the limit is set slightly above it.
rHorizonLimit(m) == MulS(Dec(201, 100), m)

\* Math.sqrt(3)
Sqrt3 == 1816186

getCriticalB(m) == MulS(3 * Sqrt3, m)

\* eps = 1e-8, with the 27 fractional bits of F.
eps == 1

\* The options buildRays passes.
BuildOpts == [dLambda |-> Dec(5, 100), maxSteps |-> 6000, rStart |-> 100 * ONE, phi0 |-> 0]

\* F = 1 - (b*b*f)/(r*r), f = 1 - (2*mass)/r, with 27 fractional bits;
\* b*b/(r*r) is computed as the square of b/r.
\* For a Huge b, b*b is Infinity, and so is the term (f > 0 at every r the loop
\* evaluates it at): F is -Infinity.
RadialF(ib, m, r) ==
    LET f == ONE - DivS(2 * m, r)
        effectivePotentialTerm == MulS(SqQ(DivS(ib, r)), f)
    IN  IF ib = Huge THEN -Infinity ELSE FONE - effectivePotentialTerm

\* dphi = b / (r*r)
Dphi(ib, r) == IF ib = Huge THEN Huge ELSE DivS(DivS(ib, r), r)

\* Mutant of Dr: the two signs exchanged.
DrSwapped(turned, drMag) == IF turned THEN -drMag ELSE drMag

\* const dr = turned ? drMag : -drMag
Dr(turned, drMag) == IF turned THEN drMag ELSE -drMag

\* Mutant of EscapedOnExit: the flag is written on the point only.
EscapedNotSet == FALSE

\* escaped = true, on r > rEscape
EscapedOnExit == TRUE

Point(r, phi, c, e, t) ==
    [r |-> r, phi |-> phi, crossed |-> c, escaped |-> e, turned |-> t]

\* The locals of computeTrajectory on entry; brk: the loop was left by break.
Entry(o) ==
    [r |-> o.rStart, phi |-> o.phi0, crossed |-> FALSE, escaped |-> FALSE,
     turned |-> FALSE, prevDr |-> -ONE, points |-> <<>>, brk |-> FALSE]

\* if (r > rEscape) { escaped = true; points.push(...); break; }
EscapeBreak(fr) ==
    [fr EXCEPT !.escaped = EscapedOnExit,
               !.points = Append(@, Point(fr.r, fr.phi, fr.crossed, TRUE, fr.turned)),
               !.brk = TRUE]

\* if (r < rHorizonLimit) { crossed = true; points.push(...); break; }
HorizonBreak(fr) ==
    [fr EXCEPT !.crossed = TRUE,
               !.points = Append(@, Point(fr.r, fr.phi, TRUE, fr.escaped, fr.turned)),
               !.brk = TRUE]

\* Mutant of TurningStep: the regularized step is taken inward.
TurningStepInward(fr, F, ib, o) ==
    LET dr == IF F = -Infinity THEN Infinity ELSE SqrtF(Max(0, -F) + eps)
        dphi == Dphi(ib, fr.r)
    IN  [fr EXCEPT !.turned = TRUE,
                   !.points = Append(@, Point(fr.r, fr.phi, fr.crossed, fr.escaped, TRUE)),
                   !.prevDr = 0,
                   !.r = AddX(fr.r, -MulX(dr, o.dLambda)),
                   !.phi = AddX(fr.phi, MulX(dphi, o.dLambda))]

\* if (F < 0) { turned = true; push; prevDr = 0; regularized outward step; continue; }
TurningStep(fr, F, ib, o) ==
    LET dr == IF F = -Infinity THEN Infinity ELSE SqrtF(Max(0, -F) + eps)
        dphi == Dphi(ib, fr.r)
    IN  [fr EXCEPT !.turned = TRUE,
                   !.points = Append(@, Point(fr.r, fr.phi, fr.crossed, fr.escaped, TRUE)),
                   !.prevDr = 0,
                   !.r = AddX(fr.r, MulX(dr, o.dLambda)),
                   !.phi = AddX(fr.phi, MulX(dphi, o.dLambda))]

\* The normal step: dr = +-sqrt(F), the sign-flip check, the update, the push,
\* and the break on a non-finite r or phi.
NormalStep(fr, F, ib, o) ==
    LET drMag == SqrtF(F)
        dr == Dr(fr.turned, drMag)
        turned == fr.turned \/ (fr.prevDr < 0 /\ dr > 0)
        dphi == Dphi(ib, fr.r)
        r == fr.r + MulS(dr, o.dLambda)
        phi == fr.phi + MulS(dphi, o.dLambda)
    IN  [fr EXCEPT !.turned = turned,
                   !.prevDr = dr,
                   !.r = r,
                   !.phi = phi,
                   !.points = Append(@, Point(r, phi, fr.crossed, fr.escaped, turned)),
                   !.brk = ~IsFinite(r) \/ ~IsFinite(phi)]

\* One iteration of the for loop.
LoopBody(fr, ib, m, o) ==
    IF fr.r > rEscape THEN EscapeBreak(fr)
    ELSE IF fr.r < rHorizonLimit(m) THEN HorizonBreak(fr)
    ELSE LET F == RadialF(ib, m, fr.r)
         IN  IF F < 0 THEN TurningStep(fr, F, ib, o) ELSE NormalStep(fr, F, ib, o)

\* for (let i = lo; i < hi; i++) { ... }, ended early by break.  The iterations
\* are run in two halves so that the evaluation nests only logarithmically.
RECURSIVE ForLoop(_, _, _, _, _, _)
ForLoop(fr, lo, hi, ib, m, o) ==
    IF fr.brk \/ lo >= hi THEN fr
    ELSE IF hi - lo = 1 THEN LoopBody(fr, ib, m, o)
    ELSE LET mid == (lo + hi) \div 2
             half == ForLoop(fr, lo, mid, ib, m, o)
         IN  ForLoop(half, mid, hi, ib, m, o)

\* Mutant of Heuristic: the comparison with the earlier radius is left out.
HeuristicNoCompare(points, o) ==
    /\ Len(points) = o.maxSteps
    /\ Len(points) > 0
    /\ points[Len(points)].r > 50 * ONE

\* if (points.length === maxSteps) { ... if (last && last.r > 50 && last.r > prev.r) escaped = true; }
Heuristic(points, o) ==
    /\ Len(points) = o.maxSteps
    /\ Len(points) > 0
    /\ LET last == points[Len(points)]
           prev == points[Max(0, Len(points) - 20) + 1]
       IN  last.r > 50 * ONE /\ last.r > prev.r

\* Mutant of Stamp: the stamping loop is left out.
StampNothing(points, c, e, t) == points

\* for (j...) points[j].crossed = crossed; ... : the final flags on every point.
Stamp(points, c, e, t) ==
    [j \in 1..Len(points) |->
        [points[j] EXCEPT !.crossed = c, !.escaped = e, !.turned = t]]

\* After the loop: the heuristic, the stamping, the value returned.
AfterLoop(fr, o) ==
    LET escaped == fr.escaped \/ Heuristic(fr.points, o)
    IN  [points |-> Stamp(fr.points, fr.crossed, escaped, fr.turned),
         crossed |-> fr.crossed, escaped |-> escaped, turned |-> fr.turned]

\* computeTrajectory(b, mass, opts): the loop, the heuristic, the stamping.
computeTrajectory(ib, m, o) == AfterLoop(ForLoop(Entry(o), 0, o.maxSteps, ib, m, o), o)

NoRes == [points |-> <<>>, crossed |-> FALSE, escaped |-> FALSE, turned |-> FALSE]

\* ------------------------------------------------------------------------
\* buildRays
\* ------------------------------------------------------------------------

\* const bCrit = 3 * Math.sqrt(3) * mass
BCritOf(m) == MulS(3 * Sqrt3, m)

\* The arguments of the call in progress.
Args ==
    [b |-> b, mass |-> mass, count |-> count, seed |-> seed,
     distMode |-> distMode, impactMode |-> impactMode]

\* rng() * Math.PI * 2
Turn(u) == 2 * MulS(Unit(u), PI)

\* psi = (i / Math.max(1, count)) * Math.PI * 2
BeamPsi(k, n) == 2 * MulS(DivS(k * ONE, Max(1, n) * ONE), PI)

\* Mutant of Orientation: psi of the beam mode is drawn from the generator.
OrientationBeamDrawn(mode, k, n, g) ==
    LET a1 == Advance(g)
        a2 == Advance(a1)
        a3 == Advance(a2)
    IN  IF mode = "isotropic"
        THEN [theta |-> Acos(2 * Unit(Output(a1)) - ONE), phi_sphere |-> Turn(Output(a2)),
              psi |-> Turn(Output(a3)), a |-> a3, n |-> 3]
        ELSE IF mode = "planar"
        THEN [theta |-> HalfPI, phi_sphere |-> Turn(Output(a1)), psi |-> 0, a |-> a1, n |-> 1]
        ELSE [theta |-> 0, phi_sphere |-> 0, psi |-> Turn(Output(a1)), a |-> a1, n |-> 1]

\* Mutant of Orientation: the planar mode spreads its rays evenly over the
\* circle, as the beam mode does, and draws nothing.
OrientationPlanarFan(mode, k, n, g) ==
    LET a1 == Advance(g)
        a2 == Advance(a1)
        a3 == Advance(a2)
    IN  IF mode = "isotropic"
        THEN [theta |-> Acos(2 * Unit(Output(a1)) - ONE), phi_sphere |-> Turn(Output(a2)),
              psi |-> Turn(Output(a3)), a |-> a3, n |-> 3]
        ELSE IF mode = "planar"
        THEN [theta |-> HalfPI, phi_sphere |-> BeamPsi(k, n), psi |-> 0, a |-> g, n |-> 0]
        ELSE [theta |-> 0, phi_sphere |-> 0, psi |-> BeamPsi(k, n), a |-> g, n |-> 0]

\* The orientation angles of ray k of n, the generator state after drawing
\* them, and the number of draws.
Orientation(mode, k, n, g) ==
    LET a1 == Advance(g)
        a2 == Advance(a1)
        a3 == Advance(a2)
    IN  IF mode = "isotropic"
        THEN [theta |-> Acos(2 * Unit(Output(a1)) - ONE), phi_sphere |-> Turn(Output(a2)),
              psi |-> Turn(Output(a3)), a |-> a3, n |-> 3]
        ELSE IF mode = "planar"
        THEN [theta |-> HalfPI, phi_sphere |-> Turn(Output(a1)), psi |-> 0, a |-> a1, n |-> 1]
        ELSE [theta |-> 0, phi_sphere |-> 0, psi |-> BeamPsi(k, n), a |-> g, n |-> 0]

\* Mutant of RandomB: maxB is used as the width of the range.
RandomBWide(u, m) ==
    LET minB == MulS(Dec(25, 10), m)
        maxB == MulS(Dec(75, 10), m)
    IN  minB + MulS(Unit(u), maxB)

\* currentB = minB + rng() * (maxB - minB), minB = 2.5 * mass, maxB = 7.5 * mass
RandomB(u, m) ==
    LET minB == MulS(Dec(25, 10), m)
        maxB == MulS(Dec(75, 10), m)
    IN  minB + MulS(Unit(u), maxB - minB)

\* Mutant of Color: the impact parameter is tested before the crossed flag.
ColorByB(crossed, cb, bc) ==
    IF cb < MulS(Dec(125, 100), bc)
    THEN (IF crossed THEN "#ff3333" ELSE "#4488ff")
    ELSE "#eab308"

\* Determine color based on trajectory fate
Color(crossed, cb, bc) ==
    IF crossed THEN "#ff3333"
    ELSE IF cb < MulS(Dec(125, 100), bc) THEN "#4488ff"
    ELSE "#eab308"

\* Transform one point from local planar 2D to global 3D.
\* A point whose r is Infinity gets coordinates that are no numbers: Infinity
\* times a cosine, times 0, summed (NaN in x, y and z when psi = 0).
Transform(p, th, ps, psp) ==
    LET lx == MulS(p.r, Cos(p.phi))
        ly == MulS(p.r, Sin(p.phi))
        lz == 0
        x1 == lx
        y1 == MulS(ly, Cos(psp)) - MulS(lz, Sin(psp))
        z1 == MulS(ly, Sin(psp)) + MulS(lz, Cos(psp))
        beta == th - HalfPI
        cb == Cos(beta)
        sb == Sin(beta)
        x2 == MulS(x1, cb) + MulS(z1, sb)
        z2 == -MulS(x1, sb) + MulS(z1, cb)
        y2 == y1
        cp == Cos(ps)
        sp == Sin(ps)
    IN  [r |-> p.r, phi |-> p.phi,
         crossed |-> p.crossed, escaped |-> p.escaped, turned |-> p.turned,
         x |-> IF IsFinite(p.r) THEN MulS(x2, cp) - MulS(y2, sp) ELSE NaN,
         y |-> IF IsFinite(p.r) THEN MulS(x2, sp) + MulS(y2, cp) ELSE NaN,
         z |-> IF IsFinite(p.r) THEN z2 ELSE NaN]

\* res.points.map(p => ...)
Points3D(points, th, ps, psp) ==
    [j \in 1..Len(points) |-> Transform(points[j], th, ps, psp)]

\* Mutant of RayId: the index is left out.
RayIdSeedOnly(s, k) == ToString(s) \o "-"

\* `${seed}-${i}`
RayId(s, k) == ToString(s) \o "-" \o ToString(k)

\* No generator has been made apart from the one of buildRays.
NoGenerators == rng = <<>>

\* App is not mounted: buildRays and computeTrajectory are called directly.
Unmounted ==
    /\ state = <<>>
    /\ timeRef = 0
    /\ shown = <<>>
    /\ pending = <<>>
    /\ canvas = <<>>
    /\ raf = <<>>

\* computeTrajectory is not run step by step and no index is being computed.
Stepless ==
    /\ loop = <<>>
    /\ lookup = <<>>

\* Nothing has been called yet.
BuildIdle ==
    /\ b = ONE /\ count = 0 /\ seed = 0
    /\ distMode = "beam" /\ impactMode = "fixed"
    /\ a = <<0, 0, 0>> /\ draws = 0
    /\ bCrit = 0 /\ i = 0
    /\ theta = 0 /\ phi_sphere = 0 /\ psi = 0
    /\ result = <<>>
    /\ history = <<>>

Init ==
    /\ pc = "idle"
    /\ mass = ONE
    /\ currentB = ONE
    /\ opts = BuildOpts
    /\ res = NoRes
    /\ BuildIdle
    /\ NoGenerators
    /\ Unmounted
    /\ Stepless

\* buildRays is called with one of the argument lists in cfgs, as at most the
\* maxCalls-th call; the call before it, if any, has returned and is recorded.
\* const rng = mulberry32(seed); const result = []; const bCrit = ...
CallBuildRays(cfgs, maxCalls) ==
    /\ pc \in {"idle", "done"}
    /\ Len(history) + (IF pc = "done" THEN 1 ELSE 0) < maxCalls
    /\ history' = IF pc = "done" THEN Append(history, <<Args, result>>) ELSE history
    /\ \E c \in cfgs :
          /\ b' = c.b
          /\ mass' = c.mass
          /\ count' = c.count
          /\ seed' = c.seed
          /\ distMode' = c.distMode
          /\ impactMode' = c.impactMode
          /\ a' = mulberry32(c.seed, a)
          /\ bCrit' = BCritOf(c.mass)
          /\ currentB' = c.b
    /\ draws' = 0
    /\ result' = <<>>
    /\ i' = 0
    /\ theta' = 0 /\ phi_sphere' = 0 /\ psi' = 0
    /\ opts' = BuildOpts
    /\ res' = NoRes
    /\ pc' = "loop"
    /\ UNCHANGED <<rng, stepVars>>

\* for (let i = 0; i < count; i++) { Determine orientation angles
SampleOrientation ==
    /\ pc = "loop"
    /\ i < count
    /\ LET o == Orientation(distMode, i, count, a)
       IN  /\ theta' = o.theta
           /\ phi_sphere' = o.phi_sphere
           /\ psi' = o.psi
           /\ a' = o.a
           /\ draws' = draws + o.n
    /\ pc' = "impact"
    /\ UNCHANGED <<trajVars, argVars, bCrit, i, result, history>>
    /\ UNCHANGED <<rng, appVars, stepVars>>

\* Determine Impact Parameter for this ray
SampleImpact ==
    /\ pc = "impact"
    /\ IF impactMode = "random"
       THEN LET a1 == Advance(a)
            IN  /\ currentB' = RandomB(Output(a1), mass)
                /\ a' = a1
                /\ draws' = draws + 1
       ELSE /\ currentB' = b
            /\ UNCHANGED <<a, draws>>
    /\ pc' = "integrate"
    /\ UNCHANGED <<mass, opts, res, argVars, bCrit, i, rayVars, result, history>>
    /\ UNCHANGED <<rng, appVars, stepVars>>

\* const res = computeTrajectory(currentB, mass, { dLambda: 0.05, ... })
Integrate ==
    /\ pc = "integrate"
    /\ res' = computeTrajectory(currentB, mass, BuildOpts)
    /\ pc' = "push"
    /\ UNCHANGED <<mass, currentB, opts, buildVars>>
    /\ UNCHANGED <<rng, appVars, stepVars>>

\* The colour, the 3D points, result.push({...}) with its draw of timeOffset; i++
PushRay ==
    /\ pc = "push"
    /\ LET a1 == Advance(a)
       IN  /\ result' = Append(result,
                  [id |-> RayId(seed, i),
                   b |-> currentB,
                   phi0 |-> 0,
                   color |-> Color(res.crossed, currentB, bCrit),
                   points |-> Points3D(res.points, theta, phi_sphere, psi),
                   crossed |-> res.crossed,
                   escaped |-> res.escaped,
                   turned |-> res.turned,
                   timeOffset |-> Floor400(Output(a1))])
           /\ a' = a1
           /\ draws' = draws + 1
    /\ i' = i + 1
    /\ pc' = "loop"
    /\ UNCHANGED <<trajVars, argVars, bCrit, rayVars, history>>
    /\ UNCHANGED <<rng, appVars, stepVars>>

\* return result
ReturnBuildRays ==
    /\ pc = "loop"
    /\ i >= count
    /\ pc' = "done"
    /\ UNCHANGED <<trajVars, buildVars>>
    /\ UNCHANGED <<rng, appVars, stepVars>>

\* ------------------------------------------------------------------------
\* Specification of buildRays: one call, with any of the argument lists below
\* ------------------------------------------------------------------------

\* The largest count of the beam fans.
MaxCount == 3

Cfg(cb, cm, cn, cs, cd, ci) ==
    [b |-> cb, mass |-> cm, count |-> cn, seed |-> cs, distMode |-> cd, impactMode |-> ci]

DistModes == {"isotropic", "planar", "beam"}
ImpactModes == {"fixed", "random"}
Seeds == {42, 7}

\* Valid argument lists.
\*  - mass 1, b = 390: far rays, escaped after some 300 points, in every mode;
\*    with a random impact parameter they fall into [2.5, 7.5] and run long.
\*  - mass 49.5: the start radius 100 is just outside 2.01 * mass, every ray is
\*    captured within 12 points.
\*  - mass 1, b = 4 and b = 6: a capture and a strongly deflected escape.
\*  - mass 49, b = 350: a ray at more than 1.25 b_crit that starts inside the
\*    photon sphere.
ValidConfigs ==
    { Cfg(390 * ONE, ONE, n, 42, "beam", "fixed") : n \in 1..MaxCount }
    \cup
    { Cfg(390 * ONE, ONE, 2, s, d, "fixed") : s \in Seeds, d \in DistModes }
    \cup
    { Cfg(4 * ONE, Dec(495, 10), 2, s, d, m) : s \in Seeds, d \in DistModes, m \in ImpactModes }
    \cup
    { Cfg(4 * ONE, ONE, 1, 42, "beam", "fixed"),
      Cfg(6 * ONE, ONE, 1, 42, "isotropic", "fixed"),
      Cfg(350 * ONE, 49 * ONE, 1, 42, "beam", "fixed"),
      Cfg(4 * ONE, ONE, 2, 7, "planar", "random"),
      Cfg(4 * ONE, ONE, 2, 7, "beam", "random"),
      Cfg(Huge, ONE, 2, 42, "beam", "fixed"),
      Cfg(20 * ONE, Dec(25, 10), 1, 42, "beam", "fixed"),
      Cfg(Dec(45, 1000), Dec(1, 100), 1, 42, "beam", "fixed") }

\* Argument lists outside the documented ranges.
InvalidConfigs ==
    { Cfg(200 * ONE, 0, 1, 42, "beam", "fixed"),
      Cfg(0, Dec(495, 10), 1, 42, "beam", "fixed"),
      Cfg(4 * ONE, Dec(495, 10), 0, 42, "beam", "fixed"),
      Cfg(4 * ONE, Dec(495, 10), 1, 42, "spiral", "fixed"),
      Cfg(4 * ONE, Dec(495, 10), 1, 42, "planar", "gaussian") }

Configs == ValidConfigs \cup InvalidConfigs

Next ==
    \/ CallBuildRays(Configs, 1) /\ UNCHANGED appVars
    \/ SampleOrientation
    \/ SampleImpact
    \/ Integrate
    \/ PushRay
    \/ ReturnBuildRays

Spec == Init /\ [][Next]_vars

\* ------------------------------------------------------------------------
\* Specification of repeated calls of buildRays
\* ------------------------------------------------------------------------

\* How many calls follow each other.
MaxCalls == 3

DetConfigs ==
    { Cfg(4 * ONE, Dec(495, 10), 2, s, "isotropic", "random") : s \in Seeds }
    \cup
    { Cfg(4 * ONE, Dec(495, 10), 1, 42, "planar", "fixed"),
      Cfg(390 * ONE, ONE, 1, 42, "planar", "fixed"),
      Cfg(390 * ONE, ONE, 2, 7, "beam", "fixed") }

NextDet ==
    \/ CallBuildRays(DetConfigs, MaxCalls) /\ UNCHANGED appVars
    \/ SampleOrientation
    \/ SampleImpact
    \/ Integrate
    \/ PushRay
    \/ ReturnBuildRays

SpecDet == Init /\ [][NextDet]_vars

\* ------------------------------------------------------------------------
\* Specification of computeTrajectory alone: it is called with one argument
\* list after another.
\* ------------------------------------------------------------------------

\* The largest maxSteps of the short runs.
MaxStepsSmall == 12

\* Impact parameters below and above the critical 3 sqrt(3) = 5.196 of mass 1.
SubcriticalB ==
    { Dec(1, 2), ONE, 2 * ONE, 3 * ONE, 4 * ONE, 5 * ONE, Dec(51, 10), Dec(519, 100) }
SupercriticalB ==
    { 6 * ONE + 1, Dec(605, 100), 7 * ONE, 10 * ONE, 50 * ONE, 200 * ONE, 390 * ONE }

\* (b, mass) pairs integrated with the options buildRays passes.
BuildCases ==
    { <<sb, ONE>> : sb \in SubcriticalB \cup SupercriticalB }
    \cup
    { <<10 * ONE, Dec(25, 10)>>, <<Dec(6755, 100), 13 * ONE>>,
      <<Huge, ONE>>, <<Dec(45, 1000), Dec(1, 100)>>, <<68 * ONE, 13 * ONE>> }

\* The short runs: every b, mass and rStart below with maxSteps = 1..MaxStepsSmall.
\* They hold a capture after 12 points (b = 4, mass = 49.5, rStart = 100), an
\* escape after 4 (b = 200, mass = 1, rStart = 149.9), immediate breaks, and
\* runs that use up maxSteps while moving outward near r = 100 (b = 200).
SmallB == { 4 * ONE, 200 * ONE }
SmallMass == { ONE, Dec(25, 10), Dec(495, 10) }
SmallRStart == { 100 * ONE, Dec(1499, 10), 151 * ONE }

TrajCases ==
    { [b |-> c[1], mass |-> c[2], opts |-> BuildOpts] : c \in BuildCases }
    \cup
    { [b |-> sb, mass |-> sm, opts |-> [BuildOpts EXCEPT !.maxSteps = n, !.rStart = rs]] :
        sb \in SmallB, sm \in SmallMass, rs \in SmallRStart, n \in 1..MaxStepsSmall }

InitTraj ==
    /\ pc = "idle"
    /\ mass = ONE
    /\ currentB = ONE
    /\ opts = BuildOpts
    /\ res = NoRes
    /\ BuildIdle
    /\ NoGenerators
    /\ Unmounted
    /\ Stepless

\* A caller passes (b, mass, opts).
CallTrajectory ==
    /\ pc \in {"idle", "returned"}
    /\ \E c \in TrajCases :
          /\ currentB' = c.b
          /\ mass' = c.mass
          /\ opts' = c.opts
    /\ res' = NoRes
    /\ pc' = "called"
    /\ UNCHANGED buildVars
    /\ UNCHANGED <<rng, appVars, stepVars>>

\* computeTrajectory runs and returns.
ReturnTrajectory ==
    /\ pc = "called"
    /\ res' = computeTrajectory(currentB, mass, opts)
    /\ pc' = "returned"
    /\ UNCHANGED <<mass, currentB, opts, buildVars>>
    /\ UNCHANGED <<rng, appVars, stepVars>>

NextTraj ==
    \/ CallTrajectory
    \/ ReturnTrajectory

SpecTraj == InitTraj /\ [][NextTraj]_vars

\* ------------------------------------------------------------------------
\* Properties of computeTrajectory
\* ------------------------------------------------------------------------

Returned == pc = "returned"

\* The heuristic's test on a returned trajectory.
StillIncreasing(t) ==
    /\ Len(t.points) > 0
    /\ t.points[Len(t.points)].r > 50 * ONE
    /\ t.points[Len(t.points)].r > t.points[Max(0, Len(t.points) - 20) + 1].r

\* C2: what computeTrajectory returns never has crossed and escaped true
\* together, neither at trajectory level nor on any point, also when the loop
\* breaks on its last iteration and the asymptotic-escape heuristic runs.
C2_NotCrossedAndEscaped ==
    Returned =>
        /\ ~(res.crossed /\ res.escaped)
        /\ \A j \in 1..Len(res.points) :
              ~(res.points[j].crossed /\ res.points[j].escaped)

\* C2 witness: the loop broke on its last iteration with crossed = true, so the
\* heuristic ran (points.length = maxSteps) on a trajectory with several points.
C2_Witness ==
    /\ Returned
    /\ res.crossed
    /\ Len(res.points) = opts.maxSteps
    /\ Len(res.points) > 1

\* C7: for mass 1 and 0 < b < 3*sqrt(3), with the options buildRays passes, the
\* run returns crossed = true with at most 6000 points, and turned = false: the
\* turning branch never fired.
C7_SubcriticalCaptured ==
    (Returned /\ mass = ONE /\ currentB > 0 /\ currentB < getCriticalB(ONE)
        /\ opts = BuildOpts) =>
        /\ res.crossed
        /\ ~res.turned
        /\ Len(res.points) <= 6000

\* C7 witness: b = 5.1, just below the critical 5.196, returned captured.
C7_Witness ==
    /\ Returned
    /\ mass = ONE /\ currentB = Dec(51, 10) /\ opts = BuildOpts
    /\ res.crossed
    /\ Len(res.points) > 2000

\* C8: for mass 1 and b > 6, with the options buildRays passes, the run
\* returns escaped = true and crossed = false.
C8_SupercriticalEscapes ==
    (Returned /\ mass = ONE /\ currentB > 6 * ONE /\ opts = BuildOpts) =>
        (res.escaped /\ ~res.crossed)

\* C8 witness: b = 6.05 returned escaped after turning.
C8_Witness ==
    /\ Returned
    /\ mass = ONE /\ currentB = Dec(605, 100) /\ opts = BuildOpts
    /\ res.escaped /\ res.turned

\* C9 as claimed: every result with turned = true, under the options buildRays
\* passes, has escaped = true and crossed = false.
C9_TurnedEscapes ==
    (Returned /\ opts = BuildOpts /\ res.turned) => (res.escaped /\ ~res.crossed)

\* C9 amended: every result with turned = true has crossed = false, and has
\* escaped = true unless all maxSteps iterations ran without r exceeding rEscape
\* and the final-radius test of the heuristic failed.
C9_TurnedNeverCrossed ==
    (Returned /\ opts = BuildOpts /\ res.turned) =>
        /\ ~res.crossed
        /\ res.escaped \/ (Len(res.points) = opts.maxSteps /\ ~StillIncreasing(res))

\* C9 witness: a turned run that left through r > rEscape before the step budget.
C9_Witness ==
    /\ Returned /\ opts = BuildOpts
    /\ res.turned /\ res.escaped
    /\ Len(res.points) < opts.maxSteps

\* ------------------------------------------------------------------------
\* Properties of buildRays
\* ------------------------------------------------------------------------

SameFlags(p, q) ==
    p.crossed = q.crossed /\ p.escaped = q.escaped /\ p.turned = q.turned

\* C1: when a call of buildRays has returned, its array equals, in every field
\* of every ray and point, the array every earlier call with the same six
\* arguments returned, whatever other calls ran before or between them.
C1_Deterministic ==
    pc = "done" =>
        \A k \in 1..Len(history) :
            history[k][1] = Args => history[k][2] = result

\* C1 witness: the third call repeats the arguments of the first, a call with
\* other arguments ran between them, and the rays were placed by random draws.
C1_Witness ==
    /\ pc = "done"
    /\ Len(history) = 2
    /\ history[1][1] = Args
    /\ history[2][1] # Args
    /\ distMode = "isotropic" /\ impactMode = "random"
    /\ Len(result) = 2
    /\ history[1][2] = result

\* C3: the colour of every ray is trapped (#ff3333) if it crossed, whatever its
\* impact parameter; else lensed (#4488ff) if its impact parameter is below
\* 1.25 b_crit; else unaffected (#eab308); and the b_crit of buildRays is the
\* value getCriticalB(mass) returns.
C3_ColorFunction ==
    /\ pc # "idle" => bCrit = getCriticalB(mass)
    /\ \A k \in 1..Len(result) :
          result[k].color =
              IF result[k].crossed THEN "#ff3333"
              ELSE IF result[k].b < MulS(Dec(125, 100), getCriticalB(mass)) THEN "#4488ff"
              ELSE "#eab308"

\* C3 witness: a returned ray that crossed with an impact parameter of at least
\* 1.25 b_crit and is coloured trapped.
C3_Witness ==
    /\ pc = "done"
    /\ \E k \in 1..Len(result) :
          /\ result[k].crossed
          /\ result[k].b >= MulS(Dec(125, 100), getCriticalB(mass))
          /\ result[k].color = "#ff3333"

\* C4 as claimed: for mass > 0, every ray whose impact parameter is at least
\* 1.25 b_crit(mass) is coloured unaffected (#eab308).
C4_FarRaysUnaffected ==
    mass > 0 =>
        \A k \in 1..Len(result) :
            result[k].b >= MulS(Dec(125, 100), getCriticalB(mass)) =>
                result[k].color = "#eab308"

\* C5: every point of what computeTrajectory returned carries the returned
\* flags; every point of every ray carries the flags of its ray; and the ray
\* pushed last has, index by index, the r, phi and flags of the planar points
\* and the flags of the trajectory.
C5_FlagsStamped ==
    /\ \A j \in 1..Len(res.points) : SameFlags(res.points[j], res)
    /\ \A k \in 1..Len(result) :
          \A j \in 1..Len(result[k].points) : SameFlags(result[k].points[j], result[k])
    /\ (pc \in {"loop", "impact", "integrate", "done"} /\ i >= 1) =>
          /\ Len(result) = i
          /\ SameFlags(result[i], res)
          /\ Len(result[i].points) = Len(res.points)
          /\ \A j \in 1..Len(res.points) :
                /\ result[i].points[j].r = res.points[j].r
                /\ result[i].points[j].phi = res.points[j].phi
                /\ SameFlags(result[i].points[j], res.points[j])

\* C5 witness: a returned ray of several hundred points that turned and escaped,
\* so that its early points were pushed with turned = false and escaped = false.
C5_Witness ==
    /\ pc = "done"
    /\ Len(result) >= 1
    /\ result[1].turned /\ result[1].escaped
    /\ Len(result[1].points) > 100
    /\ result[1].points[1].turned /\ result[1].points[1].escaped

\* The documented ranges of the arguments.
ValidArgs ==
    /\ mass > 0
    /\ b > 0
    /\ count >= 1 /\ count <= 1000
    /\ distMode \in DistModes
    /\ impactMode \in ImpactModes

\* C6 as claimed: a call whose arguments are outside the documented ranges
\* integrates nothing and returns no array.
C6_InvalidRejected ==
    (pc # "idle" /\ ~ValidArgs) => pc \notin {"integrate", "push", "done"}

\* C10: in beam mode with count >= 1, ray i has theta = 0, phi_sphere = 0 and
\* psi = 2 pi i / count (to the rounding of the arithmetic), inside [0, 2 pi);
\* and when the orientation has been assigned the generator has been called
\* only for the rays before it (once per ray for timeOffset, and once more per
\* ray when the impact parameter is random).
C10_BeamFan ==
    (pc \in {"impact", "integrate", "push"} /\ distMode = "beam" /\ count >= 1) =>
        /\ theta = 0
        /\ phi_sphere = 0
        /\ 0 <= psi /\ psi < 2 * PI
        /\ Abs(psi * count - 2 * PI * i) <= 10 * count
        /\ pc = "impact" =>
              /\ draws = i * (IF impactMode = "random" THEN 2 ELSE 1)
              /\ (i = 0 => a = ToNumber(seed))

\* C10 witness: the last ray of a fan of three, at psi = 4 pi / 3.
C10_Witness ==
    /\ pc = "impact"
    /\ distMode = "beam"
    /\ count = 3 /\ i = 2
    /\ psi > PI
    /\ draws = 2

\* C11: the b recorded on a ray is the impact parameter its trajectory was
\* integrated with and its colour was chosen with; with impactMode 'fixed' it
\* is the nominal b, with 'random' (mass > 0) it lies in [2.5 mass, 7.5 mass].
C11_RecordedB ==
    /\ \A k \in 1..Len(result) :
          /\ impactMode = "fixed" => result[k].b = b
          /\ (impactMode = "random" /\ mass > 0) =>
                /\ MulS(Dec(25, 10), mass) <= result[k].b
                /\ result[k].b <= MulS(Dec(75, 10), mass)
    /\ (pc = "loop" /\ i >= 1) =>
          /\ result[i].b = currentB
          /\ result[i].color = Color(res.crossed, result[i].b, bCrit)
          /\ res = computeTrajectory(result[i].b, mass, BuildOpts)

\* C11 witness: a returned ensemble of two rays with different random impact
\* parameters.
C11_Witness ==
    /\ pc = "done"
    /\ impactMode = "random"
    /\ Len(result) = 2
    /\ result[1].b # result[2].b
    /\ result[1].b # b /\ result[2].b # b

\* C12: a returned array has exactly count rays, ray i (from 0) has the id
\* seed-i, and the ids are pairwise distinct, whatever the outcomes of the rays;
\* while the loop runs the array holds the i rays built so far.
C12_CountRays ==
    /\ pc \in {"loop", "impact", "integrate", "push"} => Len(result) = i
    /\ pc = "done" => Len(result) = count
    /\ \A k \in 1..Len(result) : result[k].id = ToString(seed) \o "-" \o ToString(k - 1)
    /\ \A k, l \in 1..Len(result) : k # l => result[k].id # result[l].id

\* C12 witness: a returned ensemble of two rays with different outcomes, one
\* captured and one not.
C12_Witness ==
    /\ pc = "done"
    /\ count = 2
    /\ Len(result) = 2
    /\ result[1].crossed # result[2].crossed
    /\ result[1].id # result[2].id

\* C13 as claimed: no point of a returned trajectory has a non-finite r or phi.
C13_PointsFinite ==
    Returned =>
        \A j \in 1..Len(res.points) :
            IsFinite(res.points[j].r) /\ IsFinite(res.points[j].phi)

\* A step of the run produced a non-finite r or phi: the point pushed after it
\* carries it.
WentNonFinite(t) ==
    \E j \in 1..Len(t.points) :
        ~IsFinite(t.points[j].r) \/ ~IsFinite(t.points[j].phi)

\* C14 as claimed: a run in which a step produced a non-finite r or phi is
\* returned with escaped = false and crossed = false.
C14_NonFiniteInconclusive ==
    (Returned /\ WentNonFinite(res)) => (~res.escaped /\ ~res.crossed)

\* C15 as claimed: for mass > 0 the trajectory buildRays computes starts at
\* r = 100 mass, and a run that left through the boundary test ends at a radius
\* above 150 mass.
C15_RadiiScale ==
    (pc = "push" /\ mass > 0) =>
        /\ DivS(Entry(opts).r, 100 * ONE) = mass
        /\ (res.escaped /\ Len(res.points) < opts.maxSteps) =>
              DivS(res.points[Len(res.points)].r, 150 * ONE) >= mass

\* maxSteps iterations ran without a horizon crossing or a boundary escape.
Exhausted(t, o) ==
    /\ Len(t.points) = o.maxSteps
    /\ ~t.crossed
    /\ t.points[Len(t.points)].r <= rEscape

\* C16 as claimed: a run that used up maxSteps is escaped exactly when its final
\* radius exceeds 50 mass and the radius 19 points earlier; and a run that
\* ended at the horizon is not made escaped.
C16_HeuristicScaled ==
    Returned =>
        /\ Exhausted(res, opts) =>
              (res.escaped <=>
                  /\ DivS(res.points[Len(res.points)].r, 50 * ONE) > mass
                  /\ res.points[Len(res.points)].r >
                         res.points[Max(0, Len(res.points) - 20) + 1].r)
        /\ res.crossed => ~res.escaped

\* C19 as claimed: for mass > 0 and an impact parameter > 0 every point of the
\* returned trajectory has r > 0, the point pushed by the r < rHorizonLimit
\* test included.
C19_RadiusPositive ==
    (Returned /\ mass > 0 /\ currentB > 0) =>
        \A j \in 1..Len(res.points) : res.points[j].r > 0

\* The power of two by which r and the coordinates are divided so that their
\* squares can be summed: |v| \div Coarse(v) < 2^14.
RECURSIVE Coarse(_)
Coarse(v) == IF Abs(v) < 16384 THEN 1 ELSE 2 * Coarse(v \div 2)

\* sqrt(x^2 + y^2 + z^2) = r, to the resolution the coarsened numbers leave:
\* each of them is within 1 of its exact value.
DistanceIsR(p) ==
    /\ IsFinite(p.r)
    /\ p.x # NaN /\ p.y # NaN /\ p.z # NaN
    /\ p.r >= 0
    /\ LET d == Coarse(p.r)
           sr == p.r \div d
           sx == p.x \div d
           sy == p.y \div d
           sz == p.z \div d
       IN  /\ Abs(sx) <= sr + 8 /\ Abs(sy) <= sr + 8 /\ Abs(sz) <= sr + 8
           /\ Abs(sx * sx + sy * sy + sz * sz - sr * sr) <= 8 * sr + 8

\* C18 as claimed: every point of every returned ray lies at distance r from
\* the origin.
C18_RadiusPreserved ==
    pc = "done" =>
        \A k \in 1..Len(result) :
            \A j \in 1..Len(result[k].points) : DistanceIsR(result[k].points[j])

\* ------------------------------------------------------------------------
\* Specification of mulberry32 alone: two generators are made from one seed
\* and called in any order.
\* ------------------------------------------------------------------------

\* How many returned values are kept per generator.
MaxDraws == 4

\* 32-bit seeds; -1 and -2147483647 stand for 0xffffffff and 0x80000001.
RngSeeds == {0, 1, 7, 42, -1, 2147483647, -2147483647}

\* n * 0x6d2b79f5 for 0 <= n < 2^23, exactly.
TimesIncrement(n) ==
    LET n1 == n \div W16
        n0 == n % W16
        low == n0 * Increment[2]
        mid == n0 * Increment[1] + n1 * Increment[2] + low \div W16
    IN  <<n1 * Increment[1] + mid \div W16, mid % W16, low % W16>>

\* How many calls DrawMany makes.
ManyDraws == {4917750, 4917756}

\* const rng1 = mulberry32(seed), rng2 = mulberry32(seed)
CreateGenerators ==
    /\ rng = <<>>
    /\ \E s \in RngSeeds :
          rng' = [seed |-> s,
                  gen |-> [g \in 1..2 |-> [a |-> mulberry32(s, <<0, 0, 0>>), k |-> 0, out |-> <<>>]]]
    /\ UNCHANGED <<pc, trajVars, buildVars, appVars, stepVars>>

\* One call of generator g; the value is kept with its draw index.
Draw ==
    /\ rng # <<>>
    /\ \E g \in 1..2 :
          LET G == rng.gen[g]
              a1 == Advance(G.a)
          IN  /\ Len(G.out) < MaxDraws
              /\ rng' = [rng EXCEPT !.gen[g] =
                            [a |-> a1, k |-> G.k + 1, out |-> Append(G.out, <<G.k + 1, Output(a1)>>)]]
    /\ UNCHANGED <<pc, trajVars, buildVars, appVars, stepVars>>

\* n calls of a fresh generator g whose values are dropped, all of them with a
\* below 2^53: every a += 0x6d2b79f5 is exact, and a ends as seed + n * 0x6d2b79f5.
DrawMany ==
    /\ rng # <<>>
    /\ \E g \in 1..2, n \in ManyDraws :
          LET G == rng.gen[g]
              an == AddWide(G.a, TimesIncrement(n))
          IN  /\ G.k = 0
              /\ Spacing(an[1]) = 1
              /\ rng' = [rng EXCEPT !.gen[g] = [a |-> an, k |-> n, out |-> <<>>]]
    /\ UNCHANGED <<pc, trajVars, buildVars, appVars, stepVars>>

NextRng ==
    \/ CreateGenerators
    \/ Draw
    \/ DrawMany

SpecRng == Init /\ [][NextRng]_vars

\* seed + k * 0x6d2b79f5 modulo 2^32
StateAt(s, k) ==
    LET x == AddWide(ToNumber(s), TimesIncrement(k))
    IN  <<0, x[2], x[3]>>

\* C17 as claimed: after k draws the state is seed + k * 0x6d2b79f5 (modulo
\* 2^32); the k-th value is the mulberry32 output of that state, an unsigned
\* 32-bit numerator over 2^32 and so in [0, 1); and the two generators return
\* the same value at the same draw index.
C17_StreamOfSeed ==
    rng # <<>> =>
        \A g \in 1..2 :
            LET G == rng.gen[g]
            IN  /\ <<0, G.a[2], G.a[3]>> = StateAt(rng.seed, G.k)
                /\ \A j \in 1..Len(G.out) :
                      LET d == G.out[j]
                      IN  /\ d[2][1] \in 0..(W16 - 1)
                          /\ d[2][2] \in 0..(W16 - 1)
                          /\ Unit(d[2]) \in 0..(ONE - 1)
                          /\ d[2] = Output(StateAt(rng.seed, d[1]))
                          /\ \A h \in 1..2 : \A j2 \in 1..Len(rng.gen[h].out) :
                                rng.gen[h].out[j2][1] = d[1] => rng.gen[h].out[j2][2] = d[2]

\* ------------------------------------------------------------------------
\* App and SimulationCanvas: renders, effects and the handlers of Controls
\* ------------------------------------------------------------------------

\* time, maxTime and timeRef.current are counted in twentieths of a step.
TimeUnit == 20

\* The ray count App starts with (7 in the source), and the largest the slider
\* is moved to is one more.
StartRayCount == 1

\* How many times the build effect runs.
MaxBuilds == 2

\* The values useState starts with; s is what Date.now() returned.  rays is 0 for the initial
\* empty array and n for the array the n-th call of buildRays returned.
InitialState(s) ==
    [mass |-> ONE, b |-> 4 * ONE, rayCount |-> StartRayCount, seed |-> s,
     speed |-> TimeUnit,
     isPlaying |-> FALSE, isContinuous |-> FALSE,
     distributionMode |-> "isotropic", impactMode |-> "fixed",
     time |-> 0, maxTime |-> 100 * TimeUnit, rays |-> 0]

\* How many calls of buildRays have been made.
NumCalls == Len(history) + (IF pc = "idle" THEN 0 ELSE 1)

\* The array behind a reference, and the arguments it was built from.
RaysOf(ref) ==
    IF ref = 0 THEN <<>>
    ELSE IF ref <= Len(history) THEN history[ref][2]
    ELSE result

ArgsOf(ref) == IF ref <= Len(history) THEN history[ref][1] ELSE Args

\* buildRays(b, mass, rayCount, seed, distributionMode, impactMode)
ConfigOf(st) == Cfg(st.b, st.mass, st.rayCount, st.seed, st.distributionMode, st.impactMode)

\* useCallback(..., [maxTime, speed, isContinuous]): what animate closes over.
AnimateOf(st) == [maxTime |-> st.maxTime, speed |-> st.speed, isContinuous |-> st.isContinuous]

InitApp ==
    /\ pc = "idle"
    /\ mass = ONE
    /\ currentB = ONE
    /\ opts = BuildOpts
    /\ res = NoRes
    /\ BuildIdle
    /\ NoGenerators
    /\ state = InitialState(42)
    /\ timeRef = 0
    /\ shown = <<>>
    /\ pending = <<>>
    /\ canvas = [from |-> 0, objects |-> <<>>, read |-> <<>>]
    /\ raf = [request |-> <<>>, frames |-> 0]
    /\ Stepless

\* No render, effect or call is in progress or due.
Quiet ==
    /\ pc \in {"idle", "done"}
    /\ pending = <<>>
    /\ shown = <<state>>

\* A change of configuration is followed by a call of buildRays.
CanBuild == NumCalls < MaxBuilds

\* disabled={isPlaying || isContinuous}
AtRest == shown # <<>> /\ ~shown[1].isPlaying /\ ~shown[1].isContinuous

\* App and SimulationCanvas render with the current state; the effects whose
\* dependencies differ from the previous render's are scheduled, the child's
\* before the parent's, each component's in the order it declares them.  The
\* first render schedules them all.
Render ==
    /\ pc \in {"idle", "done"}
    /\ pending = <<>>
    /\ shown # <<state>>
    /\ shown' = <<state>>
    /\ pending' =
          (IF shown = <<>> \/ shown[1].rays # state.rays \/ shown[1].mass # state.mass
           THEN <<"rays">> ELSE <<>>)
          \o
          (IF shown = <<>> \/ shown[1].time # state.time \/ shown[1].mass # state.mass
                           \/ shown[1].isContinuous # state.isContinuous
           THEN <<"animation">> ELSE <<>>)
          \o
          (IF shown = <<>> \/ ConfigOf(shown[1]) # ConfigOf(state)
           THEN <<"build">> ELSE <<>>)
          \o
          (IF shown = <<>> \/ shown[1].isPlaying # state.isPlaying
                           \/ shown[1].isContinuous # state.isContinuous
                           \/ AnimateOf(shown[1]) # AnimateOf(state)
           THEN <<"loop">> ELSE <<>>)
    /\ UNCHANGED <<pc, trajVars, buildVars, rng, stepVars, state, timeRef, canvas, raf>>

\* Math.floor of a time >= 0, in whole steps.
Floor(t) == t \div TimeUnit

\* Mutant of ContinuousIndex: the pause at the end of a cycle is not tested for.
ContinuousIndexNoPause(t, len, off) ==
    LET cycleLength == len + 60
        localTime == (t + off * TimeUnit) % (cycleLength * TimeUnit)
    IN  Floor(localTime)

\* localTime = (time + ray.timeOffset) % cycleLength;
\* idx = localTime < ray.points.length ? Math.floor(localTime) : -1
ContinuousIndex(t, len, off) ==
    LET cycleLength == len + 60
        localTime == (t + off * TimeUnit) % (cycleLength * TimeUnit)
    IN  IF localTime < len * TimeUnit THEN Floor(localTime) ELSE -1

\* idx = Math.min(Math.floor(time), ray.points.length - 1)
StandardIndex(t, len) == Min(Floor(t), len - 1)

\* The index the animation effect computes for one ray.
CanvasIndex(t, len, off, cont) ==
    IF cont THEN ContinuousIndex(t, len, off) ELSE StandardIndex(t, len)

\* The elements of points that are read for an index: none below 0 (the early
\* return of the animation effect, idx >= 0 && ... in anyInside).
Reads(idx) == IF idx < 0 THEN <<>> ELSE <<idx>>

\* Mutant of anyInside: the radius of the point is compared with the horizon
\* limit instead of reading the crossed flag.
anyInsideByRadius(st) ==
    \E k \in 1..Len(RaysOf(st.rays)) :
        LET r == RaysOf(st.rays)[k]
            idx == StandardIndex(st.time, Len(r.points))
        IN  /\ ~st.isContinuous
            /\ Reads(idx) # <<>>
            /\ r.points[idx + 1].r < rHorizonLimit(st.mass)

\* const anyInside = rays.some(r => { if (isContinuous) return false; ... })
anyInside(st) ==
    \E k \in 1..Len(RaysOf(st.rays)) :
        LET r == RaysOf(st.rays)[k]
            idx == StandardIndex(st.time, Len(r.points))
        IN  /\ ~st.isContinuous
            /\ Reads(idx) # <<>>
            /\ r.points[idx + 1].crossed

\* The largest points.length - 1 of the rays, 0 if there is none.
RECURSIVE MaxT(_)
MaxT(rays) ==
    IF rays = <<>> THEN 0
    ELSE Max(Len(rays[Len(rays)].points) - 1, MaxT(SubSeq(rays, 1, Len(rays) - 1)))

\* The colour of a point: rVal = p.r / mass against 10, 4 and 2.2.
Zone(r, m) ==
    LET rVal == DivS(r, m)
    IN  IF rVal > 10 * ONE THEN "white"
        ELSE IF rVal > 4 * ONE THEN "gold"
        ELSE IF rVal > Dec(22, 10) THEN "red"
        ELSE "dark"

\* The objects built for the rays with at least two points; mass is the mass
\* their colours were computed with.
RECURSIVE RayObjects(_, _, _)
RayObjects(rays, k, m) ==
    IF k > Len(rays) THEN <<>>
    ELSE (IF Len(rays[k].points) < 2 THEN <<>>
          ELSE <<[ray |-> k, mass |-> m, visible |-> FALSE, drawn |-> 0, head |-> "none"]>>)
         \o RayObjects(rays, k + 1, m)

\* SimulationCanvas, useEffect [rays, setMaxTime, mass]: maxTime is set and the
\* objects are rebuilt from the rays prop of the render, coloured by p.r / mass.
RaysEffect ==
    /\ pending # <<>>
    /\ Head(pending) = "rays"
    /\ LET rays == RaysOf(shown[1].rays)
       IN  /\ canvas' = [from |-> shown[1].rays,
                         objects |-> RayObjects(rays, 1, shown[1].mass),
                         read |-> <<[mass |-> shown[1].mass, rays |-> shown[1].rays]>>]
           /\ state' = [state EXCEPT !.maxTime = MaxT(rays) * TimeUnit]
    /\ pending' = Tail(pending)
    /\ UNCHANGED <<pc, trajVars, buildVars, rng, stepVars, timeRef, shown, raf>>

\* One object after the animation effect, for the time, the mass and the mode
\* of the render.
Animate(obj, rays, m, t, cont) ==
    LET ray == rays[obj.ray]
        idx == CanvasIndex(t, Len(ray.points), ray.timeOffset, cont)
        logicPt == ray.points[idx + 1]
        isInside == logicPt.r < MulS(Dec(202, 100), m)
    IN  IF Reads(idx) = <<>>
        THEN [obj EXCEPT !.visible = FALSE, !.drawn = 0]
        ELSE [obj EXCEPT !.visible = ~isInside,
                         !.drawn = idx + 1,
                         !.head = Zone(logicPt.r, obj.mass)]

\* SimulationCanvas, useEffect [time, mass, photonSize, isContinuous]: every
\* object in rayObjectsRef.current is updated.
AnimationEffect ==
    /\ pending # <<>>
    /\ Head(pending) = "animation"
    /\ canvas' = [canvas EXCEPT
                    !.objects = [k \in 1..Len(canvas.objects) |->
                                    Animate(canvas.objects[k], RaysOf(canvas.from),
                                            shown[1].mass, shown[1].time,
                                            shown[1].isContinuous)],
                    !.read = <<[mass |-> shown[1].mass, rays |-> canvas.from]>>]
    /\ pending' = Tail(pending)
    /\ UNCHANGED <<pc, trajVars, buildVars, rng, stepVars, state, timeRef, shown, raf>>

\* App, useEffect [b, mass, rayCount, seed, distributionMode, impactMode]:
\* const newRays = buildRays(...), with the values of the render.
BuildEffect ==
    /\ pending # <<>>
    /\ Head(pending) = "build"
    /\ CallBuildRays({ConfigOf(shown[1])}, MaxBuilds)
    /\ pending' = <<"setRays">> \o Tail(pending)
    /\ UNCHANGED <<state, timeRef, shown, canvas, raf>>

\* Mutant of SetRays: the timeline is reset whether or not anything is playing.
SetRaysAndRewind ==
    /\ pending # <<>>
    /\ Head(pending) = "setRays"
    /\ pc = "done"
    /\ state' = [state EXCEPT !.rays = NumCalls, !.time = 0]
    /\ timeRef' = 0
    /\ pending' = Tail(pending)
    /\ UNCHANGED <<pc, trajVars, buildVars, rng, stepVars, shown, canvas, raf>>

\* ... setRays(newRays); if (!isPlaying && !isContinuous) { setTime(0); timeRef.current = 0 }
SetRays ==
    /\ pending # <<>>
    /\ Head(pending) = "setRays"
    /\ pc = "done"
    /\ LET idle == ~shown[1].isPlaying /\ ~shown[1].isContinuous
       IN  /\ state' = [state EXCEPT !.rays = NumCalls, !.time = IF idle THEN 0 ELSE @]
           /\ timeRef' = IF idle THEN 0 ELSE timeRef
    /\ pending' = Tail(pending)
    /\ UNCHANGED <<pc, trajVars, buildVars, rng, stepVars, shown, canvas, raf>>

\* App, useEffect [isPlaying, isContinuous, animate]: the cleanup of the
\* previous run cancels the frame requested; a frame is requested with the
\* animate of the render if isPlaying or isContinuous.
LoopEffect ==
    /\ pending # <<>>
    /\ Head(pending) = "loop"
    /\ raf' = [raf EXCEPT !.request = IF shown[1].isPlaying \/ shown[1].isContinuous
                                      THEN <<AnimateOf(shown[1])>>
                                      ELSE <<>>]
    /\ pending' = Tail(pending)
    /\ UNCHANGED <<pc, trajVars, buildVars, rng, stepVars, state, timeRef, shown, canvas>>

\* The largest timeRef.current from which a frame of the continuous mode is followed.
MaxClock == 12

\* Mutant of animate: a frame that would pass maxTime ends playback instead.
animateClamped(n) ==
    /\ Quiet
    /\ raf.request # <<>>
    /\ LET c == raf.request[1]
       IN  /\ c.isContinuous => timeRef < MaxClock * TimeUnit
           /\ IF c.isContinuous \/ timeRef + c.speed <= c.maxTime
              THEN /\ timeRef' = timeRef + c.speed
                   /\ state' = [state EXCEPT !.time = timeRef + c.speed]
                   /\ raf' = [request |-> <<c>>, frames |-> n]
              ELSE /\ timeRef' = c.maxTime
                   /\ state' = [state EXCEPT !.isPlaying = FALSE, !.time = c.maxTime]
                   /\ raf' = [request |-> <<>>, frames |-> n]
    /\ UNCHANGED <<pc, trajVars, buildVars, rng, stepVars, shown, pending, canvas>>

\* The frame requested is delivered, while no render or effect is due: animate
\* runs with the maxTime, speed and isContinuous it closes over; n is the number
\* of frames delivered after it.
animate(n) ==
    /\ Quiet
    /\ raf.request # <<>>
    /\ LET c == raf.request[1]
       IN  /\ c.isContinuous => timeRef < MaxClock * TimeUnit
           /\ IF c.isContinuous \/ timeRef < c.maxTime
              THEN /\ timeRef' = timeRef + c.speed
                   /\ state' = [state EXCEPT !.time = timeRef + c.speed]
                   /\ raf' = [request |-> <<c>>, frames |-> n]
              ELSE /\ timeRef' = c.maxTime
                   /\ state' = [state EXCEPT !.isPlaying = FALSE, !.time = c.maxTime]
                   /\ raf' = [request |-> <<>>, frames |-> n]
    /\ UNCHANGED <<pc, trajVars, buildVars, rng, stepVars, shown, pending, canvas>>

\* The values the controls are moved to.
SliderMass == {ONE, Dec(25, 10)}
SliderB == {4 * ONE, 6 * ONE}
SliderSpeed == {TimeUnit, 8 * TimeUnit}
SeekTimes == {0, 2010 * TimeUnit + TimeUnit \div 2}

\* The preset button "Cap": 5.1 * mass.
Presets(m) == {MulS(Dec(51, 10), m)}

\* onChange of the mass slider
SetMass ==
    /\ Quiet /\ CanBuild /\ AtRest
    /\ \E m \in SliderMass \ {state.mass} : state' = [state EXCEPT !.mass = m]
    /\ UNCHANGED <<pc, trajVars, buildVars, rng, stepVars, timeRef, shown, pending, canvas, raf>>

\* onChange of the impact parameter slider, shown while impactMode is 'fixed'
SetB ==
    /\ Quiet /\ CanBuild /\ AtRest
    /\ shown[1].impactMode = "fixed"
    /\ \E v \in SliderB \ {state.b} : state' = [state EXCEPT !.b = v]
    /\ UNCHANGED <<pc, trajVars, buildVars, rng, stepVars, timeRef, shown, pending, canvas, raf>>

\* onClick of a preset button, shown while impactMode is 'fixed' and never disabled
SetBPreset ==
    /\ Quiet /\ CanBuild
    /\ shown[1].impactMode = "fixed"
    /\ \E v \in Presets(shown[1].mass) \ {state.b} : state' = [state EXCEPT !.b = v]
    /\ UNCHANGED <<pc, trajVars, buildVars, rng, stepVars, timeRef, shown, pending, canvas, raf>>

\* onChange of the ray count slider
SetRayCount ==
    /\ Quiet /\ CanBuild /\ AtRest
    /\ \E n \in (1..(StartRayCount + 1)) \ {state.rayCount} :
          state' = [state EXCEPT !.rayCount = n]
    /\ UNCHANGED <<pc, trajVars, buildVars, rng, stepVars, timeRef, shown, pending, canvas, raf>>

SetDistributionMode ==
    /\ Quiet /\ CanBuild /\ AtRest
    /\ \E d \in DistModes \ {state.distributionMode} :
          state' = [state EXCEPT !.distributionMode = d]
    /\ UNCHANGED <<pc, trajVars, buildVars, rng, stepVars, timeRef, shown, pending, canvas, raf>>

SetImpactMode ==
    /\ Quiet /\ CanBuild /\ AtRest
    /\ \E d \in ImpactModes \ {state.impactMode} :
          state' = [state EXCEPT !.impactMode = d]
    /\ UNCHANGED <<pc, trajVars, buildVars, rng, stepVars, timeRef, shown, pending, canvas, raf>>

\* onChange of the speed slider
SetSpeed ==
    /\ Quiet
    /\ \E v \in SliderSpeed \ {state.speed} : state' = [state EXCEPT !.speed = v]
    /\ UNCHANGED <<pc, trajVars, buildVars, rng, stepVars, timeRef, shown, pending, canvas, raf>>

\* setIsPlaying(false); setIsContinuous(false); timeRef.current = 0; setTime(0)
handleReset ==
    /\ Quiet
    /\ ~shown[1].isContinuous
    /\ state' = [state EXCEPT !.isPlaying = FALSE, !.isContinuous = FALSE, !.time = 0]
    /\ timeRef' = 0
    /\ UNCHANGED <<pc, trajVars, buildVars, rng, stepVars, shown, pending, canvas, raf>>

\* setTime(val); timeRef.current = val, val within the scrubber's 0..maxSteps
handleSeek ==
    /\ Quiet
    /\ ~shown[1].isContinuous
    /\ \E val \in SeekTimes :
          /\ val <= shown[1].maxTime
          /\ state' = [state EXCEPT !.time = val]
          /\ timeRef' = val
    /\ UNCHANGED <<pc, trajVars, buildVars, rng, stepVars, shown, pending, canvas, raf>>

\* setSeed(Date.now()); handleReset()
handleRandomize ==
    /\ Quiet /\ CanBuild /\ AtRest
    /\ \E s \in Seeds :
          state' = [state EXCEPT !.seed = s, !.isPlaying = FALSE, !.isContinuous = FALSE,
                                 !.time = 0]
    /\ timeRef' = 0
    /\ UNCHANGED <<pc, trajVars, buildVars, rng, stepVars, shown, pending, canvas, raf>>

\* setIsPlaying(!isPlaying); setIsContinuous(false)
togglePlay ==
    /\ Quiet
    /\ ~shown[1].isContinuous
    /\ state' = [state EXCEPT !.isPlaying = ~shown[1].isPlaying, !.isContinuous = FALSE]
    /\ UNCHANGED <<pc, trajVars, buildVars, rng, stepVars, timeRef, shown, pending, canvas, raf>>

\* Mutant of toggleContinuous: isPlaying is left as it is.
toggleContinuousOnly ==
    /\ Quiet
    /\ state' = [state EXCEPT !.isContinuous = ~shown[1].isContinuous]
    /\ UNCHANGED <<pc, trajVars, buildVars, rng, stepVars, timeRef, shown, pending, canvas, raf>>

\* setIsContinuous(!isContinuous); if it is turned on, setIsPlaying(false)
toggleContinuous ==
    /\ Quiet
    /\ LET newState == ~shown[1].isContinuous
       IN  state' = [state EXCEPT !.isContinuous = newState,
                                  !.isPlaying = IF newState THEN FALSE ELSE @]
    /\ UNCHANGED <<pc, trajVars, buildVars, rng, stepVars, timeRef, shown, pending, canvas, raf>>

\* ------------------------------------------------------------------------
\* Specification of App while its configuration is changed; the browser
\* delivers no animation frame
\* ------------------------------------------------------------------------

NextApp ==
    \/ Render
    \/ RaysEffect
    \/ AnimationEffect
    \/ BuildEffect
    \/ SampleOrientation
    \/ SampleImpact
    \/ Integrate
    \/ PushRay
    \/ ReturnBuildRays
    \/ SetRays
    \/ LoopEffect
    \/ SetMass
    \/ SetB
    \/ SetRayCount
    \/ SetDistributionMode
    \/ SetImpactMode
    \/ handleReset
    \/ handleSeek
    \/ handleRandomize
    \/ togglePlay
    \/ toggleContinuous

SpecApp == InitApp /\ [][NextApp]_vars

\* C20 as claimed: the rays a render of App passes on (once buildRays has
\* returned any) were built from the b, mass, rayCount, seed and modes of that
\* render; and the rays the effects of SimulationCanvas read were built for the
\* mass they divide and compare their radii by.
C20_RaysMatchConfiguration ==
    /\ (shown # <<>> /\ shown[1].rays # 0) => ArgsOf(shown[1].rays) = ConfigOf(shown[1])
    /\ (canvas.read # <<>> /\ canvas.read[1].rays # 0) =>
          ArgsOf(canvas.read[1].rays).mass = canvas.read[1].mass

\* ------------------------------------------------------------------------
\* Flags of the returned rays
\* ------------------------------------------------------------------------

\* C24: in every ray buildRays returns for mass > 0 and an impact parameter
\* > 0, crossed = true implies turned = false and escaped = true implies
\* turned = true.
C24_FlagsRelated ==
    (pc = "done" /\ mass > 0) =>
        \A k \in 1..Len(result) :
            result[k].b > 0 =>
                /\ result[k].crossed => ~result[k].turned
                /\ result[k].escaped => result[k].turned

\* C24 witness: a returned ensemble for mass > 0 that holds a captured ray which
\* never turned and an escaped ray which turned, both with b > 0.
C24_Witness ==
    /\ pc = "done"
    /\ mass > 0
    /\ \E j, k \in 1..Len(result) :
          /\ result[j].b > 0 /\ result[j].crossed /\ ~result[j].turned
          /\ result[k].b > 0 /\ result[k].escaped /\ result[k].turned

\* ------------------------------------------------------------------------
\* Specification of two calls of buildRays that differ in count only
\* ------------------------------------------------------------------------

\* Two argument lists with the same b, mass, seed and modes.
SameButCount(c, d) ==
    /\ c.b = d.b /\ c.mass = d.mass /\ c.seed = d.seed
    /\ c.distMode = d.distMode /\ c.impactMode = d.impactMode

\* Ensembles of 1..MaxCount captured rays in every pair of modes, of one and two
\* far rays that escape, and of one and two rays with drawn impact parameters of
\* which the first is captured and the second escapes.
PrefixConfigs ==
    { Cfg(4 * ONE, Dec(495, 10), n, 42, d, m) :
          n \in 1..MaxCount, d \in DistModes, m \in ImpactModes }
    \cup
    { Cfg(390 * ONE, ONE, n, 7, "planar", "fixed") : n \in 1..2 }
    \cup
    { Cfg(4 * ONE, ONE, n, 1, "planar", "random") : n \in 1..2 }

\* The first call takes any of the argument lists, the second one the same with
\* any count.
CallWithCount ==
    /\ CallBuildRays(IF pc = "idle" THEN PrefixConfigs
                     ELSE { c \in PrefixConfigs : SameButCount(c, Args) }, 2)
    /\ UNCHANGED appVars

NextPrefix ==
    \/ CallWithCount
    \/ SampleOrientation
    \/ SampleImpact
    \/ Integrate
    \/ PushRay
    \/ ReturnBuildRays

SpecPrefix == Init /\ [][NextPrefix]_vars

\* The draws of one ray: its orientation, its impact parameter, its timeOffset.
DrawsPerRay(d, m) ==
    (IF d = "isotropic" THEN 3 ELSE IF d = "planar" THEN 1 ELSE 0)
    + (IF m = "random" THEN 1 ELSE 0)
    + 1

\* C25: between two rays and on return, buildRays has drawn i times the number
\* fixed by (distMode, impactMode), whatever became of the rays; and in the
\* isotropic and planar modes the rays that two ensembles built with the same
\* seed, mass, b and modes both have are equal in every field.
C25_DrawsPerRay ==
    /\ pc \in {"loop", "done"} => draws = i * DrawsPerRay(distMode, impactMode)
    /\ pc = "done" =>
          \A h \in 1..Len(history) :
              (SameButCount(history[h][1], Args) /\ distMode \in {"isotropic", "planar"}) =>
                  \A k \in 1..Min(Len(history[h][2]), Len(result)) :
                      history[h][2][k] = result[k]

\* C25 witness: an ensemble of one ray was returned, then one of two rays with
\* the same seed, mass, b and modes, the impact parameters drawn; its rays end
\* differently.
C25_Witness ==
    /\ pc = "done"
    /\ Len(history) = 1
    /\ SameButCount(history[1][1], Args)
    /\ history[1][1].count = 1 /\ Len(history[1][2]) = 1
    /\ count = 2 /\ Len(result) = 2
    /\ distMode = "planar" /\ impactMode = "random"
    /\ result[1].crossed # result[2].crossed

\* ------------------------------------------------------------------------
\* Specification of computeTrajectory run one loop iteration at a time
\* ------------------------------------------------------------------------

\* The maxSteps of the runs that are followed step by step.
MaxStepsLoop == 40

\* The runs followed step by step, all with mass 1 and phi0 = 0:
\*  - b = 6 from r = 4.6: the ray reaches its turning point (r = 4.45) after 28
\*    steps and moves outward from there;
\*  - b = 4 from r = 2.3: captured after 7 steps;
\*  - b = 200 from r = 149.9: F < 0 from the start, escaped after 3 steps;
\*  - b = Huge: F = -Infinity;
\*  - b = 5.2, just above the critical 5.196, from r = 3.1;
\*  - b = 5.2 and b = 6 with dLambda = 3 from r = 10.
LoopCases ==
    { [b |-> c[1], mass |-> ONE,
       opts |-> [dLambda |-> c[2], maxSteps |-> MaxStepsLoop, rStart |-> c[3], phi0 |-> 0]] :
        c \in { <<6 * ONE, Dec(5, 100), Dec(46, 10)>>,
                <<4 * ONE, Dec(5, 100), Dec(23, 10)>>,
                <<200 * ONE, Dec(5, 100), Dec(1499, 10)>>,
                <<Huge, Dec(5, 100), 100 * ONE>>,
                <<Dec(52, 10), Dec(5, 100), Dec(31, 10)>>,
                <<Dec(52, 10), 3 * ONE, 10 * ONE>>,
                <<6 * ONE, 3 * ONE, 10 * ONE>> } }

\* Which branch of the loop body an iteration takes.
Branch(fr, ib, m) ==
    IF fr.r > rEscape THEN "escape"
    ELSE IF fr.r < rHorizonLimit(m) THEN "horizon"
    ELSE IF RadialF(ib, m, fr.r) < 0 THEN "turning"
    ELSE "normal"

\* A caller passes (b, mass, opts); the locals are initialised.
EnterLoop ==
    /\ pc \in {"idle", "returned"}
    /\ \E c \in LoopCases :
          /\ currentB' = c.b
          /\ mass' = c.mass
          /\ opts' = c.opts
          /\ loop' = <<[before |-> Entry(c.opts), fr |-> Entry(c.opts), k |-> 0,
                        branch |-> "entry"]>>
    /\ res' = NoRes
    /\ pc' = "looping"
    /\ UNCHANGED <<buildVars, rng, appVars, lookup>>

\* One iteration of for (let i = 0; i < maxSteps; i++) { ... }
Iterate ==
    /\ pc = "looping"
    /\ ~loop[1].fr.brk
    /\ loop[1].k < opts.maxSteps
    /\ loop' = <<[before |-> loop[1].fr,
                  fr |-> LoopBody(loop[1].fr, currentB, mass, opts),
                  k |-> loop[1].k + 1,
                  branch |-> Branch(loop[1].fr, currentB, mass)]>>
    /\ UNCHANGED <<pc, trajVars, buildVars, rng, appVars, lookup>>

\* The loop has ended: the heuristic, the stamping, return.
LeaveLoop ==
    /\ pc = "looping"
    /\ loop[1].fr.brk \/ loop[1].k >= opts.maxSteps
    /\ res' = AfterLoop(loop[1].fr, opts)
    /\ pc' = "returned"
    /\ UNCHANGED <<mass, currentB, opts, buildVars, rng, appVars, stepVars>>

NextLoop ==
    \/ EnterLoop
    \/ Iterate
    \/ LeaveLoop

SpecLoop == InitTraj /\ [][NextLoop]_vars

\* An iteration that took the F < 0 branch or the normal step has just run.
Stepped == loop # <<>> /\ loop[1].branch \in {"turning", "normal"}

\* C22 as claimed: the sign-flip check is a safety net for the F < 0 branch: a
\* normal step that carries r from above to below 3 mass, across the whole
\* region where F < 0 of a ray with b above the critical value, leaves turned =
\* true although the F < 0 branch has not fired; and a step with F < 0 is decided
\* by the F < 0 branch alone.
C22_SafetyNet ==
    Stepped =>
        /\ (/\ loop[1].branch = "normal"
            /\ currentB > getCriticalB(mass)
            /\ loop[1].before.r > 3 * mass
            /\ loop[1].fr.r < 3 * mass) => loop[1].fr.turned
        /\ loop[1].branch = "turning" => (loop[1].fr.turned /\ loop[1].fr.prevDr = 0)

\* C23: turned never goes back from true to false; from one iteration to the
\* next r does not increase while turned is false and does not decrease once
\* turned is true, a step of the F < 0 branch moves r outward by more than
\* nothing; phi does not decrease for b > 0.
C23_InThenOut ==
    Stepped =>
        /\ loop[1].before.turned => loop[1].fr.turned
        /\ ~loop[1].fr.turned => loop[1].fr.r <= loop[1].before.r
        /\ loop[1].fr.turned => loop[1].fr.r >= loop[1].before.r
        /\ loop[1].branch = "turning" => loop[1].fr.r > loop[1].before.r
        /\ currentB > 0 => loop[1].fr.phi >= loop[1].before.phi

\* C23 witness: a run that moved inward, took the F < 0 branch and has now moved
\* outward by a normal step.
C23_Witness ==
    /\ Stepped
    /\ loop[1].branch = "normal"
    /\ loop[1].fr.turned
    /\ loop[1].fr.r > loop[1].before.r
    /\ loop[1].fr.points[1].r < opts.rStart
    /\ \E j \in 1..Len(loop[1].fr.points) : loop[1].fr.points[j].r < loop[1].fr.r

\* ------------------------------------------------------------------------
\* Specification of App during playback: frames are delivered, the user plays,
\* pauses, seeks, resets, randomizes and clicks a preset at any moment
\* ------------------------------------------------------------------------

\* How many animation frames are delivered.
MaxFrames == 3

AnimationFrame == raf.frames < MaxFrames /\ animate(raf.frames + 1)

NextPlay ==
    \/ Render
    \/ RaysEffect
    \/ AnimationEffect
    \/ BuildEffect
    \/ SampleOrientation
    \/ SampleImpact
    \/ Integrate
    \/ PushRay
    \/ ReturnBuildRays
    \/ SetRays
    \/ LoopEffect
    \/ AnimationFrame
    \/ SetBPreset
    \/ handleReset
    \/ handleSeek
    \/ handleRandomize
    \/ togglePlay
    \/ toggleContinuous

SpecPlay == InitApp /\ [][NextPlay]_vars

\* ------------------------------------------------------------------------
\* Specification of App left to itself: the user acts only while nothing is
\* playing, every frame requested is delivered
\* ------------------------------------------------------------------------

\* A frame is delivered; the frames are not counted.
FreeFrame == animate(raf.frames)

\* What React, buildRays and the browser do without the user.
Unattended ==
    \/ Render
    \/ RaysEffect
    \/ AnimationEffect
    \/ BuildEffect
    \/ SampleOrientation
    \/ SampleImpact
    \/ Integrate
    \/ PushRay
    \/ ReturnBuildRays
    \/ SetRays
    \/ LoopEffect
    \/ FreeFrame

NextRun ==
    \/ Unattended
    \/ AtRest /\ handleSeek
    \/ AtRest /\ SetSpeed
    \/ AtRest /\ togglePlay
    \/ AtRest /\ toggleContinuous

\* The steps of playback: renders, the effects that follow a change of time or
\* of the playback flags, and frames.
Playback ==
    \/ Render
    \/ RaysEffect
    \/ AnimationEffect
    \/ LoopEffect
    \/ FreeFrame

\* React runs the renders and effects that are due, and the browser delivers
\* the frame that was requested.
SpecRun == InitApp /\ [][NextRun]_vars /\ WF_vars(Playback)

\* ------------------------------------------------------------------------
\* Specification of the index computations alone
\* ------------------------------------------------------------------------

\* The longest point sequence, and the largest time in steps (more than a
\* cycle of the continuous mode), an index is computed for.
MaxLength == 3
MaxLookupTime == 70

\* timeOffset: Math.floor(rng() * 400); the offsets an index is computed for.
MaxOffset == 399
Offsets == {0, 1, 200, MaxOffset}

\* The animation effect computes the index for one ray and reads the point.
CanvasLookUp ==
    /\ lookup = <<>>
    /\ \E t \in 0..(MaxLookupTime * TimeUnit), len \in 1..MaxLength,
          off \in Offsets, cont \in BOOLEAN :
          LET idx == CanvasIndex(t, len, off, cont)
          IN  lookup' = <<[by |-> "SimulationCanvas", time |-> t, length |-> len,
                           timeOffset |-> off, isContinuous |-> cont,
                           idx |-> idx, reads |-> Reads(idx)]>>
    /\ UNCHANGED <<pc, trajVars, buildVars, rng, appVars, loop>>

\* anyInside computes the index for one ray, which may have no point, and
\* reads the point.
AppLookUp ==
    /\ lookup = <<>>
    /\ \E t \in 0..(MaxLookupTime * TimeUnit), len \in 0..MaxLength, off \in {0, MaxOffset} :
          LET idx == StandardIndex(t, len)
          IN  lookup' = <<[by |-> "App", time |-> t, length |-> len,
                           timeOffset |-> off, isContinuous |-> FALSE,
                           idx |-> idx, reads |-> Reads(idx)]>>
    /\ UNCHANGED <<pc, trajVars, buildVars, rng, appVars, loop>>

NextIndex ==
    \/ CanvasLookUp
    \/ AppLookUp

SpecIndex == Init /\ [][NextIndex]_vars

\* ------------------------------------------------------------------------
\* Properties of the renderer's index and of playback
\* ------------------------------------------------------------------------

\* C21: for every time >= 0, every ray with at least one point and every
\* timeOffset in 0..399 the index computed in either mode, by SimulationCanvas
\* and by anyInside, is -1 or within 0..length - 1, and a point is read only at
\* an index within 0..length - 1.
C21_IndexInBounds ==
    lookup # <<>> =>
        LET l == lookup[1]
        IN  /\ l.idx = -1 \/ l.idx \in 0..(l.length - 1)
            /\ \A j \in 1..Len(l.reads) : l.reads[j] \in 0..(l.length - 1)
            /\ l.reads = <<>> <=> l.idx = -1

\* C21 witness: in continuous mode, with the largest timeOffset, the last point
\* of a ray is read.
C21_Witness ==
    /\ lookup # <<>>
    /\ lookup[1].isContinuous
    /\ lookup[1].timeOffset = MaxOffset
    /\ lookup[1].length = MaxLength
    /\ lookup[1].reads = <<MaxLength - 1>>

\* C26: isPlaying and isContinuous are never both true, in the state and in
\* what a render shows.
C26_PlayOrContinuous ==
    /\ ~(state.isPlaying /\ state.isContinuous)
    /\ shown # <<>> => ~(shown[1].isPlaying /\ shown[1].isContinuous)

\* C26 witness: continuous flow has been turned on during standard playback,
\* after a frame was delivered.
C26_Witness ==
    /\ shown # <<>>
    /\ shown[1].isPlaying
    /\ state.isContinuous
    /\ raf.frames > 0

\* Standard playback is on.
Playing == state.isPlaying /\ ~state.isContinuous

\* Playback has stopped at the end of the timeline.
Ended ==
    /\ ~state.isPlaying
    /\ state.time = state.maxTime
    /\ timeRef = state.maxTime

C28_Regeneration ==
    [][/\ state'.rays # state.rays =>
             /\ pc = "done"
             /\ state'.rays = NumCalls
             /\ Len(result) = count
             /\ Args = ConfigOf(state)
             /\ IF ~state.isPlaying /\ ~state.isContinuous
                THEN state'.time = 0 /\ timeRef' = 0
                ELSE state'.time = state.time /\ timeRef' = timeRef
       /\ Quiet => ArgsOf(state.rays) = ConfigOf(state)
       /\ state'.seed # state.seed =>
             /\ ~state'.isPlaying /\ ~state'.isContinuous
             /\ state'.time = 0 /\ timeRef' = 0]_vars

\* C28 witness: the ensemble has been replaced during playback and the time,
\* which is not 0, was kept.
C28_Witness ==
    /\ Quiet
    /\ state.rays = 2
    /\ state.isPlaying
    /\ state.time > 0
    /\ state.time = timeRef

C30_TimeInRange ==
    (Quiet /\ ~state.isContinuous) =>
        /\ 0 <= state.time
        /\ state.time <= state.maxTime
        /\ state.time = timeRef

====
